---- MODULE Spec2Model ----
(***************************************************************************)
(* Flight-data ETL pipeline (extract -> transform -> data quality -> load) *)
(* with its Airflow DAG.  Text values are sequences of one-character       *)
(* strings; a cell of a DataFrame is a record [k, s] whose kind k tells a  *)
(* string from the missing values None / NaN / NaT and from a Timestamp.   *)
(***************************************************************************)
EXTENDS Integers, Sequences, FiniteSets, TLC

\* ------------------------------------------------------------------------
\* Bounds of the model
\* ------------------------------------------------------------------------
\* longest batch handed to load_data
MaxLoadRows == 2
\* longest text value of a batch handed to transform_data
MaxLen == 2
\* longest batch handed to transform_data
MaxRows == 2
\* most records in the data list of an API response
MaxRecords == 2

\* ------------------------------------------------------------------------
\* Cells and columns
\* ------------------------------------------------------------------------
Str(s) == [k |-> "str", s |-> s]
None == [k |-> "none", s |-> << >>]
NaN == [k |-> "nan", s |-> << >>]
NaT == [k |-> "nat", s |-> << >>]
Timestamp == [k |-> "ts", s |-> << >>]
EmptyStr == Str(<< >>)

\* pd.isna(value)
isna(v) == v.k \in {"none", "nan", "nat"}

required_fields ==
    << "flight_date", "flight_status", "departure.airport", "departure.timezone",
       "arrival.airport", "arrival.timezone", "arrival.terminal", "airline.name",
       "flight.number" >>

CanonicalCols ==
    << "flight_date", "flight_status", "departure_airport", "departure_timezone",
       "arrival_airport", "arrival_timezone", "arrival_terminal", "airline_name",
       "flight_number" >>

Range(f) == { f[i] : i \in DOMAIN f }

\* all sequences over S of length at most n
RECURSIVE SeqsUpTo(_, _)
SeqsUpTo(S, n) ==
    IF n = 0 THEN { << >> }
    ELSE LET shorter == SeqsUpTo(S, n - 1)
         IN  shorter \cup { Append(q, x) : q \in { t \in shorter : Len(t) = n - 1 }, x \in S }

\* ------------------------------------------------------------------------
\* State
\* ------------------------------------------------------------------------
VARIABLES
    \* load.py
    table,      \* the destination table testfligoo: [exists, cols, rows]
    lpc,        \* lpc[r]: where run r is inside load_data
    ldf,        \* ldf[r]: the batch run r was called with
    attempt,    \* attempt[r]: the loop variable of the retry loop (0-based)
    ltrace,     \* ltrace[r]: what the call did so far: "write_ok", "write_fail", "sleep"
    pauses,     \* pauses[r]: the durations passed to time.sleep, in order
    lresult,    \* lresult[r]: the value returned ("none" while nothing was returned)
    lraised,    \* lraised[r]: the exception that left load_data
    lasterr,    \* lasterr[r]: the exception caught by the running except block
    latest,     \* the run whose load_data call started last
    lcreates,   \* lcreates[r]: the create_table_if_not_exists calls of the call of r
    \* transform.py
    tIn,        \* the batch transform_data is called with
    tOut1,      \* the outcome of transform_data(tIn)
    tOut2,      \* the outcome of transform_data applied to the batch of tOut1
    tStage,     \* how many of the two calls were made
    \* extract.py
    apiKey,     \* the environment variable API_KEY
    epc,        \* where extract_data is
    requests,   \* the HTTP requests sent by the running or last call
    eResp,      \* what came back for the request
    eOut,       \* the DataFrame extract_data returned
    eRaised,    \* the exception that left extract_data
    \* data_quality.py
    dqIn,       \* the batch data_quality_check is called with
    engine,     \* how the validation engine behaves in this call
    dqOut,      \* the outcome of data_quality_check(dqIn)
    dqStage,    \* whether the call was made
    \* etl.py
    tstate,     \* tstate[d][t]: the state of task t in DAG run d
    tries,      \* tries[d][t]: how often task t of run d was started
    xcom,       \* xcom[d][t]: the value task t of run d pushed
    consumed,   \* consumed[d][t]: the value task t of run d pulled
    started,    \* started[d]: the tasks of run d in the order of their first start
    \* etl.py, the hand-off of a batch through XCom
    hIn,        \* the DataFrame a stage pushes
    hJson,      \* the XCom value: df.to_json(orient='split')
    hOut,       \* the DataFrame the next stage gets from pd.read_json
    hStage,     \* 0: nothing done, 1: pushed, 2: pulled
    \* health_check_dag.py
    dagBag,     \* the ids of the DAGs the Airflow deployment knows
    hcState,    \* hcState[t]: the state of task t of the health_check_dag run
    hcTries,    \* hcTries[t]: how often task t was started
    hcRequested \* the DAG id the trigger task asked Airflow to run

loadVars ==
    << table, lpc, ldf, attempt, ltrace, pauses, lresult, lraised, lasterr, latest, lcreates >>
transformVars == << tIn, tOut1, tOut2, tStage >>
extractVars == << apiKey, epc, requests, eResp, eOut, eRaised >>
dqVars == << dqIn, engine, dqOut, dqStage >>
dagVars == << tstate, tries, xcom, consumed, started >>
handoffVars == << hIn, hJson, hOut, hStage >>
healthVars == << dagBag, hcState, hcTries, hcRequested >>
vars == << loadVars, transformVars, extractVars, dqVars, dagVars, handoffVars, healthVars >>
notLoad == << transformVars, extractVars, dqVars, dagVars, handoffVars, healthVars >>
notTransform == << loadVars, extractVars, dqVars, dagVars, handoffVars, healthVars >>
notExtract == << loadVars, transformVars, dqVars, dagVars, handoffVars, healthVars >>
notDq == << loadVars, transformVars, extractVars, dagVars, handoffVars, healthVars >>
notDag == << loadVars, transformVars, extractVars, dqVars, handoffVars, healthVars >>
notHandoff == << loadVars, transformVars, extractVars, dqVars, dagVars, healthVars >>
notHealth == << loadVars, transformVars, extractVars, dqVars, dagVars, handoffVars >>

NoFrame == [cols |-> << >>, dtypes |-> << >>, rows |-> << >>]
NoOutcome == [raised |-> FALSE, df |-> NoFrame, arg |-> NoFrame]

\* ========================================================================
\* load.py
\* ========================================================================
max_retries == 3
retry_delay == 5

\* columns of the table made by CREATE TABLE IF NOT EXISTS testfligoo
create_table_query == << "id" >> \o CanonicalCols \o << "created_at" >>

\* the pipeline runs that call load_data
Runs == {"run_a", "run_b"}
\* the row contents a loaded batch draws from
RowVals == {"row_x", "row_y"}
\* the batches load_data is called with: canonical columns, a few rows
LoadBatches == { [cols |-> CanonicalCols, rows |-> rs] : rs \in SeqsUpTo(RowVals, MaxLoadRows) }

NoTable == [exists |-> FALSE, cols |-> << >>, rows |-> << >>]
NoBatch == [cols |-> << >>, rows |-> << >>]
NoExc == [kind |-> "none", attempt |-> 0]

LoadInit ==
    /\ table \in { NoTable, [exists |-> TRUE, cols |-> create_table_query, rows |-> << >>] }
    /\ lpc = [r \in Runs |-> "idle"]
    /\ ldf = [r \in Runs |-> NoBatch]
    /\ attempt = [r \in Runs |-> 0]
    /\ ltrace = [r \in Runs |-> << >>]
    /\ pauses = [r \in Runs |-> << >>]
    /\ lresult = [r \in Runs |-> "none"]
    /\ lraised = [r \in Runs |-> NoExc]
    /\ lasterr = [r \in Runs |-> NoExc]
    /\ latest = "none"
    /\ lcreates = [r \in Runs |-> 0]

\* no load_data call is between its first and its last statement
Quiet == \A q \in Runs : lpc[q] \in {"idle", "done", "raised"}

\* load_data(df) is entered: locals are fresh
LoadCall(r, df) ==
    /\ lpc[r] \in {"idle", "done", "raised"}
    /\ lpc' = [lpc EXCEPT ![r] = "create"]
    /\ ldf' = [ldf EXCEPT ![r] = df]
    /\ attempt' = [attempt EXCEPT ![r] = 0]
    /\ ltrace' = [ltrace EXCEPT ![r] = << >>]
    /\ pauses' = [pauses EXCEPT ![r] = << >>]
    /\ lresult' = [lresult EXCEPT ![r] = "none"]
    /\ lraised' = [lraised EXCEPT ![r] = NoExc]
    /\ lasterr' = [lasterr EXCEPT ![r] = NoExc]
    /\ latest' = r
    /\ lcreates' = [lcreates EXCEPT ![r] = 0]
    /\ UNCHANGED table
    /\ UNCHANGED notLoad

\* CREATE TABLE IF NOT EXISTS: an existing table is left alone
CreatedTable(t) ==
    IF t.exists THEN t ELSE [exists |-> TRUE, cols |-> create_table_query, rows |-> << >>]

\* create_table_if_not_exists() returns
CreateTableOk(r) ==
    /\ lpc[r] = "create"
    /\ table' = CreatedTable(table)
    /\ lcreates' = [lcreates EXCEPT ![r] = @ + 1]
    /\ lpc' = [lpc EXCEPT ![r] = "write"]
    /\ UNCHANGED << ldf, attempt, ltrace, pauses, lresult, lraised, lasterr, latest >>
    /\ UNCHANGED notLoad

\* what leaves create_table_if_not_exists when it fails: the exception of
\* cursor.execute or conn.commit, re-raised by the handler; or, when
\* psycopg2.connect itself raised, the UnboundLocalError of "if conn:" in the
\* finally block, conn never having been bound
CreateErrors == {"create", "unbound_local"}

\* the failure is caught by the handler of the retry loop
CreateTableFailInsideTry(r) ==
    /\ lpc[r] = "create"
    /\ lcreates' = [lcreates EXCEPT ![r] = @ + 1]
    /\ \E k \in CreateErrors :
           lasterr' = [lasterr EXCEPT ![r] = [kind |-> k, attempt |-> attempt[r] + 1]]
    /\ lpc' = [lpc EXCEPT ![r] = "except"]
    /\ UNCHANGED << table, ldf, attempt, ltrace, pauses, lresult, lraised, latest >>
    /\ UNCHANGED notLoad

\* create_table_if_not_exists() raises; load_data has no handler around the
\* call, and nothing was created
CreateTableFail(r) ==
    /\ lpc[r] = "create"
    /\ lcreates' = [lcreates EXCEPT ![r] = @ + 1]
    /\ lpc' = [lpc EXCEPT ![r] = "raised"]
    /\ \E k \in CreateErrors :
           lraised' = [lraised EXCEPT ![r] = [kind |-> k, attempt |-> 0]]
    /\ UNCHANGED << table, ldf, attempt, ltrace, pauses, lresult, lasterr, latest >>
    /\ UNCHANGED notLoad

\* df.to_sql('testfligoo', if_exists='replace', index=False): the table is
\* dropped and made again from the columns of df, then the rows are inserted
to_sql_append(t, df) ==
    [exists |-> TRUE, cols |-> df.cols, rows |-> (IF t.exists THEN t.rows ELSE << >>) \o df.rows]
to_sql(t, df) == [exists |-> TRUE, cols |-> df.cols, rows |-> df.rows]

\* what a failed to_sql can leave behind: nothing touched, the table dropped,
\* or the table made again and still empty (the insert is one transaction)
FailedWrite(t, df) ==
    { t, NoTable, [exists |-> TRUE, cols |-> df.cols, rows |-> << >>] }

\* the write completes but the loop goes on to its next pass
WriteOkNoReturn(r) ==
    /\ lpc[r] = "write"
    /\ table' = to_sql(table, ldf[r])
    /\ ltrace' = [ltrace EXCEPT ![r] = Append(@, "write_ok")]
    /\ attempt' = [attempt EXCEPT ![r] = @ + 1]
    /\ IF attempt[r] + 1 < max_retries
       THEN /\ lpc' = [lpc EXCEPT ![r] = "write"]
            /\ UNCHANGED lresult
       ELSE /\ lpc' = [lpc EXCEPT ![r] = "done"]
            /\ lresult' = [lresult EXCEPT ![r] = "False"]
    /\ UNCHANGED << ldf, pauses, lraised, lasterr, latest >>
    /\ UNCHANGED lcreates
    /\ UNCHANGED notLoad

\* one pass of the try block succeeds: the write completes and True is returned
WriteOk(r) ==
    /\ lpc[r] = "write"
    /\ table' = to_sql(table, ldf[r])
    /\ ltrace' = [ltrace EXCEPT ![r] = Append(@, "write_ok")]
    /\ lresult' = [lresult EXCEPT ![r] = "True"]
    /\ lpc' = [lpc EXCEPT ![r] = "done"]
    /\ UNCHANGED << ldf, attempt, pauses, lraised, lasterr, latest >>
    /\ UNCHANGED lcreates
    /\ UNCHANGED notLoad

\* one pass of the try block fails: control enters the except block
WriteFail(r) ==
    /\ lpc[r] = "write"
    /\ table' \in FailedWrite(table, ldf[r])
    /\ ltrace' = [ltrace EXCEPT ![r] = Append(@, "write_fail")]
    /\ lasterr' = [lasterr EXCEPT ![r] = [kind |-> "write", attempt |-> attempt[r] + 1]]
    /\ lpc' = [lpc EXCEPT ![r] = "except"]
    /\ UNCHANGED << ldf, attempt, pauses, lresult, lraised, latest >>
    /\ UNCHANGED lcreates
    /\ UNCHANGED notLoad

\* the test of the except block: if attempt < max_retries - 1
SleepsAfterOffByOne(a) == a < max_retries
ShouldSleep(a) == a < max_retries - 1

\* time.sleep(retry_delay), then the next pass of for attempt in range(max_retries);
\* when the range is used up the loop ends and the function returns False
RetrySleep(r) ==
    /\ lpc[r] = "except"
    /\ ShouldSleep(attempt[r])
    /\ pauses' = [pauses EXCEPT ![r] = Append(@, retry_delay)]
    /\ ltrace' = [ltrace EXCEPT ![r] = Append(@, "sleep")]
    /\ attempt' = [attempt EXCEPT ![r] = @ + 1]
    /\ IF attempt[r] + 1 < max_retries
       THEN /\ lpc' = [lpc EXCEPT ![r] = "write"]
            /\ UNCHANGED lresult
       ELSE /\ lpc' = [lpc EXCEPT ![r] = "done"]
            /\ lresult' = [lresult EXCEPT ![r] = "False"]
    /\ UNCHANGED << table, ldf, lraised, lasterr, latest >>
    /\ UNCHANGED lcreates
    /\ UNCHANGED notLoad

\* the else branch of the except block: raise
RaiseLast(r) ==
    /\ lpc[r] = "except"
    /\ ~ShouldSleep(attempt[r])
    /\ lraised' = [lraised EXCEPT ![r] = lasterr[r]]
    /\ lpc' = [lpc EXCEPT ![r] = "raised"]
    /\ UNCHANGED << table, ldf, attempt, ltrace, pauses, lresult, lasterr, latest >>
    /\ UNCHANGED lcreates
    /\ UNCHANGED notLoad

\* load_data calls that follow one another
SeqLoadCall(r, df) == Quiet /\ LoadCall(r, df)

LoadNext ==
    \/ \E r \in Runs, df \in LoadBatches : SeqLoadCall(r, df)
    \/ \E r \in Runs : CreateTableOk(r)
    \/ \E r \in Runs : CreateTableFail(r)
    \/ \E r \in Runs : WriteOk(r)
    \/ \E r \in Runs : WriteFail(r)
    \/ \E r \in Runs : RetrySleep(r)
    \/ \E r \in Runs : RaiseLast(r)

\* ---- load_data calls of two runs under way at the same time ----
\* df.to_sql(if_exists='replace') is not one step for another session: the
\* DROP TABLE and CREATE TABLE are carried out first, the rows are inserted
\* afterwards in one transaction.  With a pandas that runs the whole of
\* to_sql in one transaction the write is the single step WriteOk; with one
\* that commits the DROP and CREATE on their own it is DropAndCreate followed
\* by InsertRows.  Both are behaviours of this code.

\* the table is dropped and made again from the columns of df
DropAndCreate(r) ==
    /\ lpc[r] = "write"
    /\ table' = [exists |-> TRUE, cols |-> ldf[r].cols, rows |-> << >>]
    /\ lpc' = [lpc EXCEPT ![r] = "insert"]
    /\ UNCHANGED << ldf, attempt, ltrace, pauses, lresult, lraised, lasterr, latest >>
    /\ UNCHANGED lcreates
    /\ UNCHANGED notLoad

\* the INSERT statements of the chunks are committed: to_sql returns, and
\* load_data returns True
InsertRows(r) ==
    /\ lpc[r] = "insert"
    /\ table.exists
    /\ table' = [table EXCEPT !.rows = @ \o ldf[r].rows]
    /\ ltrace' = [ltrace EXCEPT ![r] = Append(@, "write_ok")]
    /\ lresult' = [lresult EXCEPT ![r] = "True"]
    /\ lpc' = [lpc EXCEPT ![r] = "done"]
    /\ UNCHANGED << ldf, attempt, pauses, lraised, lasterr, latest >>
    /\ UNCHANGED lcreates
    /\ UNCHANGED notLoad

\* the INSERT fails (the table is gone, or the database refuses): the
\* transaction is rolled back and control enters the except block
InsertFail(r) ==
    /\ lpc[r] = "insert"
    /\ ltrace' = [ltrace EXCEPT ![r] = Append(@, "write_fail")]
    /\ lasterr' = [lasterr EXCEPT ![r] = [kind |-> "write", attempt |-> attempt[r] + 1]]
    /\ lpc' = [lpc EXCEPT ![r] = "except"]
    /\ UNCHANGED << table, ldf, attempt, pauses, lresult, lraised, latest >>
    /\ UNCHANGED lcreates
    /\ UNCHANGED notLoad

\* each run calls load_data once, whatever the other run is doing
ConcurrentLoadCall(r, df) == lpc[r] = "idle" /\ LoadCall(r, df)

ConcurrentLoadNext ==
    \/ \E r \in Runs, df \in LoadBatches : ConcurrentLoadCall(r, df)
    \/ \E r \in Runs : CreateTableOk(r)
    \/ \E r \in Runs : CreateTableFail(r)
    \/ \E r \in Runs : WriteOk(r)
    \/ \E r \in Runs : DropAndCreate(r)
    \/ \E r \in Runs : InsertRows(r)
    \/ \E r \in Runs : InsertFail(r)
    \/ \E r \in Runs : WriteFail(r)
    \/ \E r \in Runs : RetrySleep(r)
    \/ \E r \in Runs : RaiseLast(r)

\* ------------------------------------------------------------------------
\* Properties of load_data
\* ------------------------------------------------------------------------
IsWrite(e) == e \in {"write_ok", "write_fail"}
NumWrites(tr) == Cardinality({ i \in DOMAIN tr : IsWrite(tr[i]) })
NumFails(tr) == Cardinality({ i \in DOMAIN tr : tr[i] = "write_fail" })
Finished(r) == lpc[r] \in {"done", "raised"}

\* C1: a load_data call attempts the replace write at most 3 times; when all
\* 3 attempts failed the exception of the third attempt leaves load_data; a
\* pause comes only between two attempts: after a failed write and before
\* the next write, at most twice, never after the third failure.
C1_RetryAtMostThree ==
    \A r \in Runs :
        LET tr == ltrace[r] IN
        /\ NumWrites(tr) <= 3
        /\ Len(pauses[r]) <= 2
        /\ \A i \in DOMAIN tr :
               tr[i] = "sleep" =>
                   /\ i > 1 /\ tr[i - 1] = "write_fail"
                   /\ IF i < Len(tr) THEN IsWrite(tr[i + 1]) ELSE lpc[r] = "write"
        /\ (NumFails(tr) = 3 /\ lpc[r] # "except") =>
               /\ lpc[r] = "raised"
               /\ lraised[r] = [kind |-> "write", attempt |-> 3]
               /\ tr[Len(tr)] = "write_fail"
        /\ (lpc[r] = "raised" /\ lraised[r].kind = "write") => NumFails(tr) = 3

\* three failed writes, two pauses, and the exception has left load_data
C1_Witness ==
    \E r \in Runs :
        /\ lpc[r] = "raised"
        /\ NumFails(ltrace[r]) = 3
        /\ Len(pauses[r]) = 2

\* what a call whose k-th write is the first to succeed has done
SuccessTrace(k) ==
    [i \in 1 .. (2 * k - 1) |->
        IF i = 2 * k - 1 THEN "write_ok" ELSE IF i % 2 = 1 THEN "write_fail" ELSE "sleep"]

\* C2: when the k-th write is the first to succeed, load_data has made
\* exactly k writes and k-1 pauses of 5 seconds, makes no write after the
\* success and returns True; it never returns False, so a finished call
\* has returned True or raised.
C2_SuccessAfterK ==
    \A r \in Runs :
        LET tr == ltrace[r] IN
        /\ lresult[r] # "False"
        /\ (\E i \in DOMAIN tr : tr[i] = "write_ok") =>
               /\ lpc[r] = "done"
               /\ lresult[r] = "True"
               /\ NumWrites(tr) \in 1 .. 3
               /\ tr = SuccessTrace(NumWrites(tr))
               /\ pauses[r] = [i \in 1 .. (NumWrites(tr) - 1) |-> 5]
        /\ lresult[r] = "True" => tr # << >> /\ tr[Len(tr)] = "write_ok"
        /\ Finished(r) => (lresult[r] = "True" /\ lraised[r] = NoExc)
                            \/ (lresult[r] = "none" /\ lraised[r] # NoExc)

\* two failures, then a success: three writes, two pauses, True
C2_Witness ==
    \E r \in Runs :
        /\ lpc[r] = "done"
        /\ lresult[r] = "True"
        /\ ltrace[r] = << "write_fail", "sleep", "write_fail", "sleep", "write_ok" >>
        /\ pauses[r] = << 5, 5 >>

\* C3: when load_data calls follow one another, the table holds, after a
\* call that returned True, exactly the rows of that call's batch: as many
\* rows as the batch has and no row of an earlier load.
C3_FullReplace ==
    \A r \in Runs :
        (latest = r /\ lpc[r] = "done" /\ lresult[r] = "True") =>
            /\ table.exists
            /\ table.rows = ldf[r].rows
            /\ Len(table.rows) = Len(ldf[r].rows)

\* a successful load of a batch on top of the rows of an earlier successful
\* load of another, longer batch
C3_Witness ==
    \E r, q \in Runs :
        /\ r # q
        /\ latest = r /\ lpc[r] = "done" /\ lresult[r] = "True"
        /\ lpc[q] = "done" /\ lresult[q] = "True"
        /\ Len(ldf[q].rows) > Len(ldf[r].rows)
        /\ Len(ldf[r].rows) > 0
        /\ table.rows = ldf[r].rows

\* C12: after a load_data call that returned True the table testfligoo has
\* the nine canonical columns, the auto-increment column id and the column
\* created_at, so that every row written by the load carries an id given by
\* the sink; after the first load and after every later one.
C12_TableKeepsIdAndTimestamp ==
    \A r \in Runs :
        (latest = r /\ lpc[r] = "done" /\ lresult[r] = "True") =>
            /\ table.exists
            /\ Range(CanonicalCols) \subseteq Range(table.cols)
            /\ "id" \in Range(table.cols)
            /\ "created_at" \in Range(table.cols)

\* create_table_if_not_exists was called once, before any write and any
\* pause, and a call it failed in made no write and no pause
CreateOnceBeforeWrites ==
    \A r \in Runs :
        /\ lcreates[r] <= 1
        /\ lpc[r] = "create" => lcreates[r] = 0 /\ ltrace[r] = << >> /\ pauses[r] = << >>
        /\ lpc[r] \in {"write", "except", "done", "raised"} => lcreates[r] = 1
        /\ (ltrace[r] # << >> \/ pauses[r] # << >>) =>
               lcreates[r] = 1 /\ lraised[r].kind \notin CreateErrors
        /\ lasterr[r].kind \notin CreateErrors
        /\ (lpc[r] = "raised" /\ lraised[r].kind \in CreateErrors) =>
               /\ NumWrites(ltrace[r]) = 0
               /\ pauses[r] = << >>
               /\ lresult[r] = "none"
\* the step in which table creation fails takes load_data to its end by an
\* exception and leaves the table as it was
CreateFailureLeavesTable ==
    \A r \in Runs :
        (lpc[r] = "create" /\ lpc'[r] # "write") =>
            /\ lpc'[r] = "raised"
            /\ lraised'[r].kind \in CreateErrors
            /\ table' = table

\* C18: the retry loop covers the write only: create_table_if_not_exists
\* is called once per load_data call, before the first write; every write
\* and every pause comes after it returned; and when it fails load_data
\* is left by an exception with no write attempted and no pause made, and
\* the table is as it was.
C18_CreateOutsideRetry == []CreateOnceBeforeWrites /\ [][CreateFailureLeavesTable]_vars

\* after a successful load of a batch of two rows the next call found the
\* database unreachable: it raised with no write and no pause, the rows
\* still there
C18_Witness ==
    \E r \in Runs :
        /\ latest = r
        /\ lpc[r] = "raised" /\ lraised[r].kind = "unbound_local"
        /\ lcreates[r] = 1
        /\ ltrace[r] = << >> /\ pauses[r] = << >>
        /\ Len(table.rows) = 2

\* C15: when the load_data calls of two runs overlap and both have returned
\* True, the table holds exactly the batch of the run whose write completed
\* last: not rows of both batches, not the batch of the earlier writer.  The
\* last writer is the run whose write completes in the step after which
\* both calls have returned True.
C15_LastWriterWins ==
    [][\A r \in Runs :
          (/\ lresult[r] # "True"
           /\ lresult'[r] = "True"
           /\ \A q \in Runs : lpc'[q] = "done" /\ lresult'[q] = "True") =>
              /\ table'.exists
              /\ table'.rows = ldf'[r].rows]_vars

\* ========================================================================
\* transform.py
\* ========================================================================
\* a DataFrame: cols (the column labels in order), dtypes (label -> dtype)
\* and rows (a sequence of functions label -> cell)
Slash == "/"
Hyphenated == << " ", "-", " " >>
BareHyphen == << "-" >>

\* str.replace(old, new) for a one-character old
RECURSIVE str_replace(_, _, _)
str_replace(s, old, new) ==
    IF s = << >> THEN << >>
    ELSE IF Head(s) = old THEN new \o str_replace(Tail(s), old, new)
    ELSE << Head(s) >> \o str_replace(Tail(s), old, new)

\* str(value) of a cell
str(v) ==
    CASE v.k = "str" -> v.s
      [] v.k = "none" -> << "N", "o", "n", "e" >>
      [] v.k = "nan" -> << "n", "a", "n" >>
      [] v.k = "nat" -> << "N", "a", "T" >>
      [] v.k = "ts" -> << "2", "0", "2", "4", "-", "0", "1", "-", "0", "1", " ",
                          "0", "0", ":", "0", "0", ":", "0", "0" >>

replace_slashes_with_bare_hyphen(value) ==
    IF isna(value) \/ value = EmptyStr THEN EmptyStr
    ELSE Str(str_replace(str(value), Slash, BareHyphen))
replace_slashes_with_hyphens(value) ==
    IF isna(value) \/ value = EmptyStr THEN EmptyStr
    ELSE Str(str_replace(str(value), Slash, Hyphenated))

column_mapping_swapped ==
    [c \in Range(required_fields) |->
        CASE c = "flight_date" -> "flight_status"
          [] c = "flight_status" -> "flight_date"
          [] c = "departure.airport" -> "departure_airport"
          [] c = "departure.timezone" -> "departure_timezone"
          [] c = "arrival.airport" -> "arrival_airport"
          [] c = "arrival.timezone" -> "arrival_timezone"
          [] c = "arrival.terminal" -> "arrival_terminal"
          [] c = "airline.name" -> "airline_name"
          [] c = "flight.number" -> "flight_number"]
column_mapping ==
    [c \in Range(required_fields) |->
        CASE c = "flight_date" -> "flight_date"
          [] c = "flight_status" -> "flight_status"
          [] c = "departure.airport" -> "departure_airport"
          [] c = "departure.timezone" -> "departure_timezone"
          [] c = "arrival.airport" -> "arrival_airport"
          [] c = "arrival.timezone" -> "arrival_timezone"
          [] c = "arrival.terminal" -> "arrival_terminal"
          [] c = "airline.name" -> "airline_name"
          [] c = "flight.number" -> "flight_number"]

\* df.rename(columns=column_mapping): a label that is a key of the mapping is
\* replaced, any other label is kept
RenamedUnmapped(c) == c
Renamed(c) == IF c \in DOMAIN column_mapping THEN column_mapping[c] ELSE c
Unrenamed(df, d) == CHOOSE c \in Range(df.cols) : Renamed(c) = d
rename_columns(df) ==
    LET newcols == [i \in DOMAIN df.cols |-> Renamed(df.cols[i])]
    IN  [cols |-> newcols,
         dtypes |-> [d \in Range(newcols) |-> df.dtypes[Unrenamed(df, d)]],
         rows |-> [i \in DOMAIN df.rows |->
                     [d \in Range(newcols) |-> df.rows[i][Unrenamed(df, d)]]]]

\* df[col] = df[col].apply(replace_slashes_with_hyphens): the result of
\* apply, a column of text, is an object column
ApplyReplace(df, col) ==
    [cols |-> df.cols,
     dtypes |-> [df.dtypes EXCEPT ![col] = "object"],
     rows |-> [i \in DOMAIN df.rows |->
                 [df.rows[i] EXCEPT ![col] = replace_slashes_with_hyphens(@)]]]

astype_str(v) == Str(str(v))

\* for col in df.columns: if df[col].dtype != 'datetime64[ns]': astype(str)
AsTypeStrAll(df) ==
    [cols |-> df.cols,
     dtypes |-> [c \in DOMAIN df.dtypes |->
                   IF df.dtypes[c] # "datetime64[ns]" THEN "object" ELSE df.dtypes[c]],
     rows |-> [i \in DOMAIN df.rows |->
                 [c \in DOMAIN df.rows[i] |->
                    IF df.dtypes[c] # "datetime64[ns]"
                    THEN astype_str(df.rows[i][c]) ELSE df.rows[i][c]]]]

\* df.fillna(''): a missing cell of an object column becomes ''; in a
\* datetime64[ns] column the fill value '' is read as a date, which gives NaT,
\* so the column is left as it is
fillna(df) ==
    [cols |-> df.cols,
     dtypes |-> df.dtypes,
     rows |-> [i \in DOMAIN df.rows |->
                 [c \in DOMAIN df.rows[i] |->
                    IF df.dtypes[c] = "object" /\ isna(df.rows[i][c])
                    THEN EmptyStr ELSE df.rows[i][c]]]]

DelimiterCols == << "departure_timezone", "arrival_timezone", "arrival_terminal" >>

\* The objects of one transform_data call: arg is the DataFrame the caller
\* passed, work the one the local name transformed_df is bound to, same tells
\* whether the two are one object.
\* transformed_df = df.copy(): a new object with the contents of df
Copy(h) == [arg |-> h.arg, work |-> h.arg, same |-> FALSE]
\* transformed_df = <a call that returns a new DataFrame>
Rebind(h, new) == [arg |-> h.arg, work |-> new, same |-> FALSE]
\* transformed_df[col] = ...: the object transformed_df names is changed in place
SetItem(h, new) == [arg |-> IF h.same THEN new ELSE h.arg, work |-> new, same |-> h.same]

\* transform_data(df): [raised, df, arg], arg being the caller's DataFrame
\* after the call; indexing a column that is not there raises KeyError
transform_data(df) ==
    LET h1 == Copy([arg |-> df, work |-> df, same |-> TRUE])
        h2 == Rebind(h1, rename_columns(h1.work))
    IN  IF ~(Range(DelimiterCols) \subseteq Range(h2.work.cols))
        THEN [raised |-> TRUE, df |-> df, arg |-> h2.arg]
        ELSE LET h3 == SetItem(h2, ApplyReplace(h2.work, "departure_timezone"))
                 h4 == SetItem(h3, ApplyReplace(h3.work, "arrival_timezone"))
                 h5 == SetItem(h4, ApplyReplace(h4.work, "arrival_terminal"))
                 h6 == SetItem(h5, AsTypeStrAll(h5.work))
                 h7 == Rebind(h6, fillna(h6.work))
             IN  [raised |-> FALSE, df |-> h7.work, arg |-> h7.arg]

\* ---- the batches transform_data is tried on ----
InChars == {"a", Slash}
InVals == { Str(s) : s \in SeqsUpTo(InChars, MaxLen) } \cup {None, NaN}
SourceDelimiterFields == {"departure.timezone", "arrival.timezone", "arrival.terminal"}
Place(p) ==
    CASE p = "delimiter" -> SourceDelimiterFields
      [] p = "other" -> Range(required_fields) \ SourceDelimiterFields
      [] p = "all" -> Range(required_fields)
Places == {"delimiter", "other", "all"}
DateKinds == {"object", "datetime", "datetime_nat"}

\* row i carries the value vals[i] in the fields of Place(p) and "a"
\* elsewhere; flight_date is a text column, a datetime64[ns] column of
\* Timestamps, or one whose first cell is NaT
SourceBatch(vals, p, dk) ==
    [cols |-> required_fields,
     dtypes |-> [c \in Range(required_fields) |->
                   IF c = "flight_date" /\ dk # "object" THEN "datetime64[ns]" ELSE "object"],
     rows |-> [i \in DOMAIN vals |->
                 [c \in Range(required_fields) |->
                    IF c = "flight_date" /\ dk # "object"
                    THEN (IF dk = "datetime_nat" /\ i = 1 THEN NaT ELSE Timestamp)
                    ELSE IF c \in Place(p) THEN vals[i]
                    ELSE Str(<< "a" >>)]]]

TransformInputs ==
    { SourceBatch(vs, p, dk) : vs \in SeqsUpTo(InVals, MaxRows), p \in Places, dk \in DateKinds }

TransformInit ==
    /\ tIn \in TransformInputs
    /\ tOut1 = NoOutcome
    /\ tOut2 = NoOutcome
    /\ tStage = 0

TransformIdle ==
    /\ tIn = NoFrame
    /\ tOut1 = NoOutcome
    /\ tOut2 = NoOutcome
    /\ tStage = 0

\* transform_data(tIn)
TransformFirst ==
    /\ tStage = 0
    /\ tOut1' = transform_data(tIn)
    /\ tStage' = 1
    /\ UNCHANGED << tIn, tOut2 >>
    /\ UNCHANGED notTransform

\* transform_data on the batch the first call returned
TransformSecond ==
    /\ tStage = 1
    /\ ~tOut1.raised
    /\ tOut2' = transform_data(tOut1.df)
    /\ tStage' = 2
    /\ UNCHANGED << tIn, tOut1 >>
    /\ UNCHANGED notTransform

TransformNext ==
    \/ TransformFirst
    \/ TransformSecond

\* ------------------------------------------------------------------------
\* Properties of transform_data
\* ------------------------------------------------------------------------
SlashesBefore(s, i) == Cardinality({ j \in 1 .. (i - 1) : s[j] = Slash })
Pos(s, i) == i + 2 * SlashesBefore(s, i)
\* t is s with every "/" turned into " - " and every other character kept
HyphenatedOf(s, t) ==
    /\ Len(t) = Len(s) + 2 * SlashesBefore(s, Len(s) + 1)
    /\ \A i \in DOMAIN s :
           IF s[i] = Slash
           THEN t[Pos(s, i)] = " " /\ t[Pos(s, i) + 1] = "-" /\ t[Pos(s, i) + 2] = " "
           ELSE t[Pos(s, i)] = s[i]
\* positions (in required_fields / CanonicalCols) of the delimiter fields
DelimiterIdx == { n \in DOMAIN CanonicalCols : CanonicalCols[n] \in Range(DelimiterCols) }
Missing(v) == isna(v) \/ v = EmptyStr

\* C5: after transform_data the three fields departure_timezone,
\* arrival_timezone and arrival_terminal hold no "/"; each value is the input
\* value with every "/" replaced by " - " and nothing else changed; an empty
\* or missing input value gives the empty string.
C5_SlashesHyphenated ==
    (tStage >= 1 /\ ~tOut1.raised) =>
        /\ Len(tOut1.df.rows) = Len(tIn.rows)
        /\ \A i \in DOMAIN tIn.rows : \A n \in DelimiterIdx :
               LET v == tIn.rows[i][required_fields[n]]
                   w == tOut1.df.rows[i][CanonicalCols[n]]
               IN  /\ w.k = "str"
                   /\ Slash \notin Range(w.s)
                   /\ v.k = "str" => HyphenatedOf(v.s, w.s)
                   /\ Missing(v) => w = EmptyStr

\* a batch with a value of two slashes and a missing value went through
C5_Witness ==
    /\ tStage >= 1 /\ ~tOut1.raised
    /\ \E i, j \in DOMAIN tIn.rows :
           /\ tIn.rows[i]["arrival.terminal"] = Str(<< Slash, Slash >>)
           /\ tOut1.df.rows[i]["arrival_terminal"] = Str(Hyphenated \o Hyphenated)
           /\ isna(tIn.rows[j]["departure.timezone"])

StandIns == { << "N", "o", "n", "e" >>, << "n", "a", "n" >>, << "N", "a", "T" >> }

\* C9: transform_data turns every empty or missing value into the empty
\* string, in the six other fields as in the three delimiter fields, and its
\* output holds no missing value and no text standing for one.
C9_MissingBecomesEmpty ==
    (tStage >= 1 /\ ~tOut1.raised) =>
        \A i \in DOMAIN tIn.rows : \A n \in DOMAIN CanonicalCols :
            LET v == tIn.rows[i][required_fields[n]]
                w == tOut1.df.rows[i][CanonicalCols[n]]
            IN  /\ Missing(v) => w = EmptyStr
                /\ ~isna(w)
                /\ w.s \notin StandIns

\* C10: transform_data applied to its own output returns that output: the
\* same column names, the same rows, the same value in every field.
C10_Idempotent ==
    tStage = 2 =>
        /\ ~tOut2.raised
        /\ tOut2.df.cols = tOut1.df.cols
        /\ Len(tOut2.df.rows) = Len(tOut1.df.rows)
        /\ tOut2.df.rows = tOut1.df.rows

\* the second call was made on the output of a first call that had renamed
\* columns, rewritten a slash and met a missing value
C10_Witness ==
    /\ tStage = 2
    /\ tOut1.df.cols # tIn.cols
    /\ \E i, j \in DOMAIN tIn.rows :
           /\ Slash \in Range(tIn.rows[i]["departure.timezone"].s)
           /\ isna(tIn.rows[j]["flight_status"])

\* C11: for a batch in source-side naming transform_data does not raise; its
\* output has as many rows as the input, in the same order (a text value
\* outside the delimiter fields is found unchanged in the same row), its
\* columns are the images of the input columns under the nine-entry mapping,
\* one for one, and the batch passed in is the same after the call.
C11_RowsAndColumnsKept ==
    tStage >= 1 =>
        /\ ~tOut1.raised
        /\ Len(tOut1.df.rows) = Len(tIn.rows)
        /\ Len(tOut1.df.cols) = Len(tIn.cols)
        /\ Cardinality(Range(tOut1.df.cols)) = Cardinality(Range(tIn.cols))
        /\ \A n \in DOMAIN tIn.cols :
               /\ tIn.cols[n] \in DOMAIN column_mapping
               /\ tOut1.df.cols[n] = column_mapping[tIn.cols[n]]
        /\ \A i \in DOMAIN tIn.rows :
               /\ DOMAIN tOut1.df.rows[i] = Range(tOut1.df.cols)
               /\ \A n \in DOMAIN tIn.cols :
                      LET v == tIn.rows[i][tIn.cols[n]]
                          w == tOut1.df.rows[i][tOut1.df.cols[n]]
                      IN  /\ (v.k \in {"str", "ts"} /\ n \notin DelimiterIdx) => w = v
                          /\ (v.k = "str" /\ n \in DelimiterIdx) => HyphenatedOf(v.s, w.s)
        /\ tOut1.arg = tIn

\* a batch of two rows that differ in flight_number and in arrival_terminal
\* went through, and the rows came out in the order they went in
C11_Witness ==
    /\ tStage >= 1
    /\ Len(tIn.rows) = 2
    /\ tIn.rows[1]["flight.number"] = Str(<< "a", "a" >>)
    /\ tIn.rows[2]["flight.number"] = Str(<< Slash >>)
    /\ tOut1.df.rows[1]["flight_number"] = Str(<< "a", "a" >>)
    /\ tOut1.df.rows[2]["arrival_terminal"] = Str(Hyphenated)
    /\ tOut1.arg.cols = required_fields

\* ========================================================================
\* extract.py
\* ========================================================================
\* JSON values of a record of the API: null, a string, or an object whose
\* members are null or strings
JNull == [t |-> "null", s |-> << >>, o |-> << >>]
JStr(s) == [t |-> "str", s |-> s, o |-> << >>]
JObj(o) == [t |-> "obj", s |-> << >>, o |-> o]

ScalarKeys == {"flight_date", "flight_status"}
NestedKeys == {"departure", "arrival", "airline", "flight"}
SubKeys(k) ==
    CASE k = "departure" -> {"airport", "timezone"}
      [] k = "arrival" -> {"airport", "timezone", "terminal"}
      [] k = "airline" -> {"name"}
      [] k = "flight" -> {"number"}

\* ---- the records an API response is made of ----
\* sm: the two top-level scalars are absent / null / a string;
\* bm: the four nested objects are absent / null / an object;
\* um: the members of these objects are absent / null / a string, but for
\* tm: the same for arrival.terminal
Modes == {"absent", "null", "value"}
BaseModes == {"absent", "null", "dict"}
JVal(mode) == IF mode = "null" THEN JNull ELSE JStr(<< "a" >>)
SubMode(k, sub, um, tm) == IF k = "arrival" /\ sub = "terminal" THEN tm ELSE um
ApiRecord(sm, bm, um, tm) ==
    LET top == (IF sm = "absent" THEN {} ELSE ScalarKeys)
                 \cup (IF bm = "absent" THEN {} ELSE NestedKeys)
    IN  [k \in top |->
            IF k \in ScalarKeys THEN JVal(sm)
            ELSE IF bm = "null" THEN JNull
            ELSE JObj([sub \in { x \in SubKeys(k) : SubMode(k, x, um, tm) # "absent" } |->
                          JVal(SubMode(k, sub, um, tm))])]
ApiRecords ==
    { ApiRecord(sm, bm, um, tm) : sm \in Modes, bm \in BaseModes, um \in Modes, tm \in Modes }

\* what requests.get / raise_for_status / response.json() can come to
ErrorKinds == {"connection_error", "http_error", "not_json"}
NoResponse == [kind |-> "none", data |-> << >>]
ApiResponses ==
    { [kind |-> k, data |-> << >>] : k \in ErrorKinds \cup {"no_data"} }
      \cup { [kind |-> "data", data |-> d] : d \in SeqsUpTo(ApiRecords, MaxRecords) }

\* ---- pd.json_normalize(data['data']) ----
\* the column labels one record gives: a nested object gives one label
\* "key.member" per member, anything else the label "key"
FlatKeys(rec) ==
    UNION { IF rec[k].t = "obj" THEN { k \o "." \o sub : sub \in DOMAIN rec[k].o } ELSE {k} :
            k \in DOMAIN rec }
Cell(j) == IF j.t = "null" THEN None ELSE Str(j.s)
FlatCell(rec, label) ==
    IF label \in DOMAIN rec
    THEN Cell(rec[label])
    ELSE LET k == CHOOSE k \in DOMAIN rec :
                      rec[k].t = "obj" /\ \E sub \in DOMAIN rec[k].o : label = k \o "." \o sub
             sub == CHOOSE sub \in DOMAIN rec[k].o : label = k \o "." \o sub
         IN  Cell(rec[k].o[sub])
\* one row per record; a label a record does not give is NaN in its row
json_normalize(data) ==
    LET labels == UNION { FlatKeys(data[i]) : i \in DOMAIN data }
    IN  [labels |-> labels,
         rows |-> [i \in DOMAIN data |->
                     [c \in labels |->
                        IF c \in FlatKeys(data[i]) THEN FlatCell(data[i], c) ELSE NaN]]]

\* for field in required_fields: if field not in flights_df.columns:
\*     flights_df[field] = ""      (either branch of the inner test)
AddMissingFields(nf) ==
    LET labels == nf.labels \cup Range(required_fields)
    IN  [labels |-> labels,
         rows |-> [i \in DOMAIN nf.rows |->
                     [c \in labels |-> IF c \in nf.labels THEN nf.rows[i][c] ELSE EmptyStr]]]

\* flights_df[required_fields]
SelectRequired(nf) ==
    [cols |-> required_fields,
     dtypes |-> [c \in Range(required_fields) |-> "object"],
     rows |-> [i \in DOMAIN nf.rows |-> [c \in Range(required_fields) |-> nf.rows[i][c]]]]

\* flights_df.fillna('')
ExtractNoFill(df) == df
ExtractFillna(df) == fillna(df)

\* the DataFrame extract_data builds from the data list
ExtractFrame(data) == ExtractFillna(SelectRequired(AddMissingFields(json_normalize(data))))

\* if not api_key
KeyIsNone(k) == k = "absent"
KeyMissing(k) == k \in {"absent", ""}
ApiKeys == {"absent", "", "key"}

ExtractInit ==
    /\ apiKey \in ApiKeys
    /\ epc = "idle"
    /\ requests = 0
    /\ eResp = NoResponse
    /\ eOut = NoFrame
    /\ eRaised = "none"

ExtractIdle ==
    /\ apiKey = "absent"
    /\ epc = "idle"
    /\ requests = 0
    /\ eResp = NoResponse
    /\ eOut = NoFrame
    /\ eRaised = "none"

ExtractQuiet == epc \in {"idle", "done", "raised"}

\* extract_data() without a credential: ValueError before the request
ExtractCallNoKey ==
    /\ ExtractQuiet
    /\ KeyMissing(apiKey)
    /\ requests' = 0
    /\ eResp' = NoResponse
    /\ eOut' = NoFrame
    /\ eRaised' = "configuration"
    /\ epc' = "raised"
    /\ UNCHANGED apiKey
    /\ UNCHANGED notExtract

\* extract_data() with a credential: requests.get(url, params) is sent
ExtractCallSend ==
    /\ ExtractQuiet
    /\ ~KeyMissing(apiKey)
    /\ requests' = 1
    /\ eResp' = NoResponse
    /\ eOut' = NoFrame
    /\ eRaised' = "none"
    /\ epc' = "waiting"
    /\ UNCHANGED apiKey
    /\ UNCHANGED notExtract

\* the request fails, raise_for_status() raises, or the body is no JSON:
\* both except blocks log and re-raise
ResponseError ==
    /\ epc = "waiting"
    /\ \E resp \in ApiResponses :
           /\ resp.kind \in ErrorKinds
           /\ eResp' = resp
           /\ eRaised' = resp.kind
    /\ epc' = "raised"
    /\ UNCHANGED << apiKey, requests, eOut >>
    /\ UNCHANGED notExtract

\* if 'data' not in data: raise ValueError
ResponseNoData ==
    /\ epc = "waiting"
    /\ \E resp \in ApiResponses :
           /\ resp.kind = "no_data"
           /\ eResp' = resp
    /\ eRaised' = "format"
    /\ epc' = "raised"
    /\ UNCHANGED << apiKey, requests, eOut >>
    /\ UNCHANGED notExtract

\* the body has a data list: the DataFrame is built and returned
ResponseData ==
    /\ epc = "waiting"
    /\ \E resp \in ApiResponses :
           /\ resp.kind = "data"
           /\ eResp' = resp
           /\ eOut' = ExtractFrame(resp.data)
    /\ epc' = "done"
    /\ UNCHANGED << apiKey, requests, eRaised >>
    /\ UNCHANGED notExtract

ExtractNext ==
    \/ ExtractCallNoKey
    \/ ExtractCallSend
    \/ ResponseError
    \/ ResponseNoData
    \/ ResponseData

\* ------------------------------------------------------------------------
\* Properties of extract_data
\* ------------------------------------------------------------------------
\* the JSON value a record carries for a required field: "omitted" when the
\* record does not have it, "null", or "value"
Upstream(rec, field) ==
    IF field \in ScalarKeys
    THEN (IF field \notin DOMAIN rec THEN "omitted"
          ELSE IF rec[field].t = "null" THEN "null" ELSE "value")
    ELSE LET k == CHOOSE k \in NestedKeys : \E sub \in SubKeys(k) : field = k \o "." \o sub
             sub == CHOOSE sub \in SubKeys(k) : field = k \o "." \o sub
         IN  IF k \notin DOMAIN rec \/ rec[k].t # "obj" THEN "omitted"
             ELSE IF sub \notin DOMAIN rec[k].o THEN "omitted"
             ELSE IF rec[k].o[sub].t = "null" THEN "null" ELSE "value"

\* C6: for a response with a top-level data list, whatever fields its records
\* carry, extract_data returns a batch with exactly the nine source-side
\* columns in their fixed order, one row per record, and the empty string
\* wherever the field is omitted or null upstream.
C6_FixedColumns ==
    (epc = "done") =>
        /\ eOut.cols = << "flight_date", "flight_status", "departure.airport",
                          "departure.timezone", "arrival.airport", "arrival.timezone",
                          "arrival.terminal", "airline.name", "flight.number" >>
        /\ Len(eOut.rows) = Len(eResp.data)
        /\ \A i \in DOMAIN eOut.rows :
               /\ DOMAIN eOut.rows[i] = Range(eOut.cols)
               /\ \A c \in Range(eOut.cols) :
                      IF Upstream(eResp.data[i], c) = "value"
                      THEN eOut.rows[i][c] = Str(<< "a" >>)
                      ELSE eOut.rows[i][c] = EmptyStr

\* a response whose first record has arrival.airport but no arrival.terminal
\* and whose second record has a null flight_status and no nested object
C6_Witness ==
    /\ epc = "done"
    /\ Len(eResp.data) = 2
    /\ Upstream(eResp.data[1], "arrival.airport") = "value"
    /\ Upstream(eResp.data[1], "arrival.terminal") = "omitted"
    /\ Upstream(eResp.data[2], "flight_status") = "null"
    /\ "arrival" \notin DOMAIN eResp.data[2]
    /\ eOut.rows[1]["arrival.terminal"] = EmptyStr

\* C7: extract_data fails fast and never retries: without a credential
\* (absent or empty) it raises the configuration error and sends no request;
\* with one it sends exactly one request, and a failed request, a non-success
\* status or a body without data leaves it as an exception, with no batch.
C7_FailFast ==
    /\ requests <= 1
    /\ (epc # "idle" /\ apiKey \in {"absent", ""}) =>
           epc = "raised" /\ eRaised = "configuration" /\ requests = 0
    /\ (epc # "idle" /\ apiKey \notin {"absent", ""}) => requests = 1
    /\ (epc \in {"done", "raised"} /\ eResp.kind # "data") =>
           epc = "raised" /\ eRaised # "none" /\ eOut = NoFrame
    /\ epc = "done" => eRaised = "none" /\ eResp.kind = "data"

\* a failed request, a non-success status or a body without data has raised
\* after the one request
C7_Witness ==
    /\ epc = "raised"
    /\ eResp.kind \in {"http_error", "connection_error", "no_data"}
    /\ requests = 1

\* ========================================================================
\* data_quality.py and plugins/great_expectations_utils.py
\* ========================================================================
Exists(c) == [expectation |-> "expect_column_to_exist", column |-> c]
InSet(c) == [expectation |-> "expect_column_values_to_be_in_set", column |-> c]
NotRegex(c) == [expectation |-> "expect_column_values_to_not_match_regex", column |-> c]

define_flight_data_expectations ==
    << Exists("flight_date"), Exists("flight_status"), Exists("departure_airport"),
       Exists("departure_timezone"), Exists("arrival_airport"), Exists("arrival_timezone"),
       Exists("arrival_terminal"), Exists("airline_name"), Exists("flight_number"),
       InSet("flight_status"),
       NotRegex("departure_timezone"), NotRegex("arrival_timezone"),
       NotRegex("arrival_terminal") >>

\* how the validation engine and its surroundings behave during one call:
\*   importable  the import of great_expectations_utils succeeded
\*   makedirs    os.makedirs of the data directory succeeds
\*   context     BaseDataContext(...) can be built
\*   suite       the expectation suite can be fetched or created
\*   get_batch   context.get_batch(...) returns
\*   throwAt     the number of the expectation call that throws (0: none)
\*   validate    batch.validate() reports "pass" or "fail", or it "throw"s
Engines ==
    [importable : BOOLEAN, makedirs : BOOLEAN, context : BOOLEAN, suite : BOOLEAN,
     get_batch : BOOLEAN, throwAt : 0 .. Len(define_flight_data_expectations),
     validate : {"pass", "fail", "throw"}]

\* GreatExpectationsUtils.__init__: [raised, context, suite]; makedirs is
\* outside the try, a failure of the context or of the suite leaves both None
GreatExpectationsUtils(eng) ==
    IF ~eng.makedirs THEN [raised |-> TRUE, context |-> FALSE, suite |-> FALSE]
    ELSE IF eng.context /\ eng.suite THEN [raised |-> FALSE, context |-> TRUE, suite |-> TRUE]
    ELSE [raised |-> FALSE, context |-> FALSE, suite |-> FALSE]

\* for exp in expectations: getattr(batch, exp["expectation"])(**kwargs), with
\* the throwAt-th call throwing (0: none does): the calls made, in order
ApplyExpectationsButLast(expectations, throwAt) ==
    IF throwAt \in 1 .. Len(expectations) - 1
    THEN SubSeq(expectations, 1, throwAt)
    ELSE SubSeq(expectations, 1, Len(expectations) - 1)
ApplyExpectations(expectations, throwAt) ==
    IF throwAt \in 1 .. Len(expectations)
    THEN SubSeq(expectations, 1, throwAt)
    ELSE expectations

\* validate_dataframe(df, expectations, raise_on_failure):
\* [raised, value, submitted, logs]
validate_dataframe(self, eng, expectations, raise_on_failure) ==
    LET n == Len(expectations)
        applied == ApplyExpectations(expectations, eng.throwAt)
        failed(sub, logs) ==
            [raised |-> raise_on_failure, value |-> FALSE, submitted |-> sub,
             logs |-> logs \o << "error: Error during data validation" >>]
    IN  IF ~self.context \/ ~self.suite
        THEN [raised |-> FALSE, value |-> TRUE, submitted |-> << >>,
              logs |-> << "warning: Great Expectations not properly initialized" >>]
        ELSE IF ~eng.get_batch THEN failed(<< >>, << >>)
        ELSE IF eng.throwAt \in 1 .. n THEN failed(applied, << >>)
        ELSE IF eng.validate = "throw" THEN failed(applied, << >>)
        ELSE IF eng.validate = "pass"
        THEN [raised |-> FALSE, value |-> TRUE, submitted |-> applied,
              logs |-> << "info: All data quality checks passed" >>]
        ELSE IF raise_on_failure
        THEN failed(applied, << "warning: data quality checks failed" >>)
        ELSE [raised |-> FALSE, value |-> FALSE, submitted |-> applied,
              logs |-> << "warning: data quality checks failed" >>]

\* the body of the try block of data_quality_check
DQTry(eng) ==
    IF ~eng.makedirs
    THEN [raised |-> TRUE, value |-> FALSE, submitted |-> << >>, logs |-> << >>]
    ELSE LET ge_utils == GreatExpectationsUtils(eng)
         IN  IF ge_utils.raised
             THEN [raised |-> TRUE, value |-> FALSE, submitted |-> << >>, logs |-> << >>]
             ELSE validate_dataframe(ge_utils, eng, define_flight_data_expectations, FALSE)

NoDqOutcome ==
    [raised |-> FALSE, df |-> NoFrame, validation_result |-> "none", submitted |-> << >>,
     logs |-> << >>]

\* what bool(validation_result) is called in the outcome
Bool(b) == IF b THEN "True" ELSE "False"

\* the except block raises instead of returning the batch
data_quality_check_propagates(df, eng) ==
    IF ~eng.importable
    THEN [raised |-> FALSE, df |-> df, validation_result |-> "none", submitted |-> << >>,
          logs |-> << "warning: Great Expectations not available" >>]
    ELSE LET t == DQTry(eng)
         IN  IF t.raised \/ ~t.value
             THEN [raised |-> TRUE, df |-> NoFrame, validation_result |-> "none",
                   submitted |-> t.submitted, logs |-> t.logs]
             ELSE [raised |-> FALSE, df |-> df, validation_result |-> "True",
                   submitted |-> t.submitted,
                   logs |-> t.logs \o << "info: Data quality checks passed successfully" >>]

\* data_quality_check(df): [raised, df, validation_result, submitted, logs],
\* validation_result being what validate_dataframe returned ("none": not called
\* or left by an exception)
data_quality_check(df, eng) ==
    IF ~eng.importable
    THEN [raised |-> FALSE, df |-> df, validation_result |-> "none", submitted |-> << >>,
          logs |-> << "warning: Great Expectations not available" >>]
    ELSE LET t == DQTry(eng)
         IN  IF t.raised
             THEN [raised |-> FALSE, df |-> df, validation_result |-> "none",
                   submitted |-> t.submitted,
                   logs |-> t.logs \o << "error: Error during data quality checks",
                                         "warning: Data quality check encountered errors" >>]
             ELSE IF t.value
             THEN [raised |-> FALSE, df |-> df, validation_result |-> Bool(t.value),
                   submitted |-> t.submitted,
                   logs |-> t.logs \o << "info: Data quality checks passed successfully" >>]
             ELSE [raised |-> FALSE, df |-> df, validation_result |-> Bool(t.value),
                   submitted |-> t.submitted,
                   logs |-> t.logs \o << "warning: Some data quality checks failed" >>]

\* ---- the batches data_quality_check is tried on ----
DQVals == { Str(<< "a" >>), Str(<< Slash >>), EmptyStr }
DQFrame(vals) ==
    [cols |-> CanonicalCols,
     dtypes |-> [c \in Range(CanonicalCols) |-> "object"],
     rows |-> [i \in DOMAIN vals |-> [c \in Range(CanonicalCols) |-> vals[i]]]]
DQBatches == { DQFrame(vs) : vs \in SeqsUpTo(DQVals, MaxRows) }
NoEngine ==
    [importable |-> FALSE, makedirs |-> FALSE, context |-> FALSE, suite |-> FALSE,
     get_batch |-> FALSE, throwAt |-> 0, validate |-> "pass"]

DqInit ==
    /\ dqIn \in DQBatches
    /\ engine \in Engines
    /\ dqOut = NoDqOutcome
    /\ dqStage = 0

DqIdle ==
    /\ dqIn = NoFrame
    /\ engine = NoEngine
    /\ dqOut = NoDqOutcome
    /\ dqStage = 0

\* data_quality_check(dqIn)
DataQualityCheck ==
    /\ dqStage = 0
    /\ dqOut' = data_quality_check(dqIn, engine)
    /\ dqStage' = 1
    /\ UNCHANGED << dqIn, engine >>
    /\ UNCHANGED notDq

DqNext ==
    \/ DataQualityCheck

\* ------------------------------------------------------------------------
\* Properties of data_quality_check
\* ------------------------------------------------------------------------
\* C4: whatever batch it is given and whatever the validation engine does
\* (not importable, context or suite not initialised, an assertion call
\* throws, validation fails, validation passes), data_quality_check does not
\* raise and returns the batch it was given, rows and field values the same.
C4_NeverRaisesNeverChanges ==
    dqStage = 1 =>
        /\ ~dqOut.raised
        /\ dqOut.df.cols = dqIn.cols
        /\ Len(dqOut.df.rows) = Len(dqIn.rows)
        /\ dqOut.df.rows = dqIn.rows

\* a batch of two rows came back from a call in which an assertion threw
C4_Witness ==
    /\ dqStage = 1
    /\ engine.importable /\ engine.makedirs /\ engine.context /\ engine.suite
    /\ engine.get_batch /\ engine.throwAt = 10
    /\ Len(dqIn.rows) = 2
    /\ dqOut.df = dqIn

IsPrefix(p, q) == Len(p) <= Len(q) /\ \A i \in DOMAIN p : p[i] = q[i]
\* the engine was imported and GreatExpectationsUtils built context and suite
EngineInitialised ==
    engine.importable /\ engine.makedirs /\ engine.context /\ engine.suite
NumOf(kind) ==
    Cardinality({ i \in DOMAIN define_flight_data_expectations :
                    define_flight_data_expectations[i].expectation = kind })

\* C13 as stated: in every data_quality_check run with the engine imported
\* and initialised, all 13 assertions of define_flight_data_expectations are
\* submitted to the engine in list order, none skipped, whatever the
\* assertions before did.
C13_AllAssertionsSubmitted ==
    (dqStage = 1 /\ EngineInitialised) =>
        dqOut.submitted = define_flight_data_expectations

\* C13 amended: the list has 13 assertions (9 column-existence, 1 value-set,
\* 3 pattern checks); in a run with the engine imported and initialised the
\* assertions submitted are a prefix of the list, in list order: all 13 when
\* get_batch returns and no assertion call throws, whether validation then
\* passes or fails; none when get_batch throws; the first k when the k-th
\* assertion call throws, the later ones being skipped.
C13_SubmittedPrefix ==
    /\ Len(define_flight_data_expectations) = 13
    /\ NumOf("expect_column_to_exist") = 9
    /\ NumOf("expect_column_values_to_be_in_set") = 1
    /\ NumOf("expect_column_values_to_not_match_regex") = 3
    /\ (dqStage = 1 /\ EngineInitialised) =>
           /\ IsPrefix(dqOut.submitted, define_flight_data_expectations)
           /\ (engine.get_batch /\ engine.throwAt = 0) =>
                  dqOut.submitted = define_flight_data_expectations
           /\ ~engine.get_batch => dqOut.submitted = << >>
           /\ (engine.get_batch /\ engine.throwAt > 0) =>
                  Len(dqOut.submitted) = engine.throwAt

\* a run in which no call threw and validation reported failures: all 13
\* assertions were submitted
C13_Witness ==
    /\ dqStage = 1 /\ EngineInitialised
    /\ engine.get_batch /\ engine.throwAt = 0 /\ engine.validate = "fail"
    /\ Len(dqOut.submitted) = 13
    /\ dqOut.submitted[13] = NotRegex("arrival_terminal")

\* the assertions were put to the engine and batch.validate() gave a result
Evaluated ==
    /\ EngineInitialised
    /\ engine.get_batch /\ engine.throwAt = 0 /\ engine.validate \in {"pass", "fail"}
    /\ dqOut.submitted = define_flight_data_expectations
Warnings ==
    { "warning: Great Expectations not available",
      "warning: Great Expectations not properly initialized",
      "warning: data quality checks failed",
      "warning: Data quality check encountered errors",
      "warning: Some data quality checks failed" }

\* C17: validate_dataframe, called with raise_on_failure=False, does not
\* raise and returns True only when the assertions were evaluated by the
\* engine and validation succeeded, False otherwise; so data_quality_check
\* logs that the checks passed only in such a run, and logs a warning when
\* the engine is unavailable, unconfigured or throws.
C17_PassedOnlyWhenEvaluated ==
    dqStage = 1 =>
        /\ (engine.importable /\ engine.makedirs) =>
               /\ dqOut.validation_result \in {"True", "False"}
               /\ dqOut.validation_result = "True" <=> (Evaluated /\ engine.validate = "pass")
        /\ "info: Data quality checks passed successfully" \in Range(dqOut.logs) =>
               (Evaluated /\ engine.validate = "pass")
        /\ ~Evaluated => Range(dqOut.logs) \cap Warnings # {}

\* ========================================================================
\* etl.py
\* ========================================================================
\* extract_task >> transform_task >> data_quality_check_task >> load_task
Tasks == << "extract_data", "transform_data", "data_quality_check", "load_data" >>
TaskIds == Range(Tasks)
TaskNo(t) == CHOOSE n \in DOMAIN Tasks : Tasks[n] = t
UpstreamOf(t) == IF TaskNo(t) = 1 THEN {} ELSE { Tasks[TaskNo(t) - 1] }

\* default_args["retries"]
retries == 2

\* the DAG runs that are under way together
DagRuns == {"run_1", "run_2"}
\* the batches extract_data can return
DagBatches == {"batch_x", "batch_y"}

\* an XCom entry [key, value]; a value names the batch and the stage that
\* shaped it last
NoValue == [by |-> "none", of |-> "none"]
NoXcom == [key |-> "none", value |-> NoValue]

\* ti.xcom_pull(task_ids=task_id, key=key) of run d: None when there is no
\* such entry
xcom_pull(d, task_id, key) ==
    IF xcom[d][task_id].key = key THEN xcom[d][task_id].value ELSE NoValue

\* trigger_rule=TriggerRule.ALL_SUCCESS
AllDone(d, t) ==
    \A u \in UpstreamOf(t) : tstate[d][u] \in {"success", "failed", "upstream_failed"}
TriggerRuleMet(d, t) == \A u \in UpstreamOf(t) : tstate[d][u] = "success"
UpstreamFailed(d, t) == \E u \in UpstreamOf(t) : tstate[d][u] \in {"failed", "upstream_failed"}

DagInit ==
    /\ tstate = [d \in DagRuns |-> [t \in TaskIds |-> "none"]]
    /\ tries = [d \in DagRuns |-> [t \in TaskIds |-> 0]]
    /\ xcom = [d \in DagRuns |-> [t \in TaskIds |-> NoXcom]]
    /\ consumed = [d \in DagRuns |-> [t \in TaskIds |-> NoValue]]
    /\ started = [d \in DagRuns |-> << >>]

\* the scheduler starts a try of task t of run d; the XCom entries of the
\* task are cleared when the try starts
StartTask(d, t) ==
    /\ tstate[d][t] \in {"none", "up_for_retry"}
    /\ TriggerRuleMet(d, t)
    /\ tstate' = [tstate EXCEPT ![d][t] = "running"]
    /\ tries' = [tries EXCEPT ![d][t] = @ + 1]
    /\ xcom' = [xcom EXCEPT ![d][t] = NoXcom]
    /\ consumed' = [consumed EXCEPT ![d][t] = NoValue]
    /\ started' = [started EXCEPT ![d] = IF tries[d][t] = 0 THEN Append(@, t) ELSE @]
    /\ UNCHANGED notDag

\* a task whose upstream task failed is not run
MarkUpstreamFailed(d, t) ==
    /\ tstate[d][t] = "none"
    /\ UpstreamFailed(d, t)
    /\ tstate' = [tstate EXCEPT ![d][t] = "upstream_failed"]
    /\ UNCHANGED << tries, xcom, consumed, started >>
    /\ UNCHANGED notDag

\* the callable of a running task raises (or the try is killed): the task is
\* retried while tries are left, then failed
TaskFails(d, t) ==
    /\ tstate[d][t] = "running"
    /\ tstate' = [tstate EXCEPT ![d][t] = IF tries[d][t] <= retries THEN "up_for_retry" ELSE "failed"]
    /\ UNCHANGED << tries, xcom, consumed, started >>
    /\ UNCHANGED notDag

\* extract_and_push: the batch of extract_data() is pushed as extracted_data
ExtractAndPush(d, b) ==
    /\ tstate[d]["extract_data"] = "running"
    /\ xcom' = [xcom EXCEPT ![d]["extract_data"] =
                   [key |-> "extracted_data", value |-> [by |-> "extract_data", of |-> b]]]
    /\ tstate' = [tstate EXCEPT ![d]["extract_data"] = "success"]
    /\ UNCHANGED << tries, consumed, started >>
    /\ UNCHANGED notDag

\* transform_and_push: pulls extracted_data of extract_data, pushes the
\* transformed batch as transformed_data (read_json of None raises)
TransformAndPush(d) ==
    LET pulled == xcom_pull(d, "extract_data", "extracted_data") IN
    /\ tstate[d]["transform_data"] = "running"
    /\ pulled # NoValue
    /\ consumed' = [consumed EXCEPT ![d]["transform_data"] = pulled]
    /\ xcom' = [xcom EXCEPT ![d]["transform_data"] =
                   [key |-> "transformed_data",
                    value |-> [by |-> "transform_data", of |-> pulled.of]]]
    /\ tstate' = [tstate EXCEPT ![d]["transform_data"] = "success"]
    /\ UNCHANGED << tries, started >>
    /\ UNCHANGED notDag

\* quality_check_and_push: pulls transformed_data of transform_data, pushes
\* the batch data_quality_check returned (the batch it was given) as
\* validated_data
QualityCheckAndPush(d) ==
    LET pulled == xcom_pull(d, "transform_data", "transformed_data") IN
    /\ tstate[d]["data_quality_check"] = "running"
    /\ pulled # NoValue
    /\ consumed' = [consumed EXCEPT ![d]["data_quality_check"] = pulled]
    /\ xcom' = [xcom EXCEPT ![d]["data_quality_check"] =
                   [key |-> "validated_data", value |-> pulled]]
    /\ tstate' = [tstate EXCEPT ![d]["data_quality_check"] = "success"]
    /\ UNCHANGED << tries, started >>
    /\ UNCHANGED notDag

\* load_from_xcom: pulls validated_data of data_quality_check and loads it
LoadFromXcom(d) ==
    LET pulled == xcom_pull(d, "data_quality_check", "validated_data") IN
    /\ tstate[d]["load_data"] = "running"
    /\ pulled # NoValue
    /\ consumed' = [consumed EXCEPT ![d]["load_data"] = pulled]
    /\ tstate' = [tstate EXCEPT ![d]["load_data"] = "success"]
    /\ UNCHANGED << tries, xcom, started >>
    /\ UNCHANGED notDag

DagNext ==
    \/ \E d \in DagRuns, t \in TaskIds : StartTask(d, t)
    \/ \E d \in DagRuns, t \in TaskIds : MarkUpstreamFailed(d, t)
    \/ \E d \in DagRuns, t \in TaskIds : TaskFails(d, t)
    \/ \E d \in DagRuns, b \in DagBatches : ExtractAndPush(d, b)
    \/ \E d \in DagRuns : TransformAndPush(d)
    \/ \E d \in DagRuns : QualityCheckAndPush(d)
    \/ \E d \in DagRuns : LoadFromXcom(d)

\* ------------------------------------------------------------------------
\* Properties of the DAG flight_data_etl_pipeline
\* ------------------------------------------------------------------------
\* C8: in every run the stages run in the order extract_data,
\* transform_data, data_quality_check, load_data: a stage is started only
\* when its predecessor has succeeded in the same run, it consumes the batch
\* its predecessor pushed in that run, and load_data is never started when
\* one of the three earlier stages has failed.
C8_LinearOrder ==
    \A d \in DagRuns :
        /\ IsPrefix(started[d], Tasks)
        /\ \A n \in 2 .. Len(Tasks) :
               LET t == Tasks[n]
                   p == Tasks[n - 1]
               IN  /\ tries[d][t] > 0 => tstate[d][p] = "success"
                   /\ tstate[d][t] = "success" =>
                          /\ consumed[d][t] # NoValue
                          /\ consumed[d][t] = xcom[d][p].value
                          /\ consumed[d][t].of = xcom[d]["extract_data"].value.of
        /\ tries[d]["load_data"] > 0 =>
               \A n \in 1 .. 3 : tstate[d][Tasks[n]] \notin {"failed", "upstream_failed"}

\* two runs went through all four stages, each with its own batch, one of
\* them after a retry of transform_data
C8_Witness ==
    /\ \A d \in DagRuns : tstate[d]["load_data"] = "success"
    /\ consumed["run_1"]["load_data"].of # consumed["run_2"]["load_data"].of
    /\ tries["run_1"]["transform_data"] = 2

\* ========================================================================
\* etl.py: a batch handed from one task to the next through XCom
\* ========================================================================
\* cells read_json makes of numbers: an int64 and a float64 value, written by
\* their digits
Int64(s) == [k |-> "int", s |-> s]
Float64(s) == [k |-> "float", s |-> s]
JNum(s) == [t |-> "num", s |-> s, o |-> << >>]
NoJson == [columns |-> << >>, index |-> << >>, data |-> << >>]

\* df.to_json(orient='split'): columns, index and data; a text cell is written
\* as a JSON string, a number as a JSON number, a missing value as null and a
\* Timestamp as a number (epoch milliseconds)
ToJsonValue(v) ==
    CASE v.k = "str" -> JStr(v.s)
      [] v.k \in {"int", "float"} -> JNum(v.s)
      [] v.k = "ts" -> JNum(<< "1", "7", "0", "4", "0", "6", "7", "2", "0", "0", "0", "0", "0" >>)
      [] OTHER -> JNull
to_json(df) ==
    [columns |-> df.cols,
     index |-> [i \in DOMAIN df.rows |-> i - 1],
     data |-> [i \in DOMAIN df.rows |->
                 [n \in DOMAIN df.cols |-> ToJsonValue(df.rows[i][df.cols[n]])]]]

\* the decimal digits
IsDigit(c) == c \in {"0", "1", "2", "3", "4", "5", "6", "7", "8", "9"}
\* text that astype("float64") takes as a whole number: digits only
IsNumberText(s) == s # << >> /\ \A i \in DOMAIN s : IsDigit(s[i])
\* the digits of the number a digit text stands for
RECURSIVE StripZeros(_)
StripZeros(s) ==
    IF Len(s) > 1 /\ Head(s) = "0" THEN StripZeros(Tail(s)) ELSE s

\* the value the JSON parser gives for a cell
Parsed(j) ==
    CASE j.t = "str" -> Str(j.s)
      [] j.t = "num" -> Int64(j.s)
      [] OTHER -> None
Numeric(v) == v.k \in {"int", "float"} \/ (v.k = "str" /\ IsNumberText(v.s))

\* Parser._try_convert_data with dtype=True, on the cells of one column:
\* an object column that astype("float64") accepts becomes float64, and a
\* float64 column of whole numbers becomes int64; a column with a cell that
\* is no number stays as parsed; a column of no rows is not coerced
ConvertColumn(cells) ==
    IF cells = << >> THEN cells
    ELSE IF \A i \in DOMAIN cells : Numeric(cells[i])
    THEN [i \in DOMAIN cells |-> Int64(StripZeros(cells[i].s))]
    ELSE IF \A i \in DOMAIN cells : Numeric(cells[i]) \/ cells[i].k = "none"
    THEN [i \in DOMAIN cells |->
            IF cells[i].k = "none" THEN NaN ELSE Float64(StripZeros(cells[i].s))]
    ELSE cells
ColumnDtype(cells) ==
    IF cells = << >> THEN "object"
    ELSE IF \A i \in DOMAIN cells : cells[i].k = "int" THEN "int64"
    ELSE IF \A i \in DOMAIN cells : cells[i].k \in {"float", "nan"} THEN "float64"
    ELSE "object"

\* pd.read_json(df_json, orient='split') with its default dtype=True; no
\* column label of the pipeline is one that convert_dates picks
read_json(js) ==
    LET col(n) == ConvertColumn([i \in DOMAIN js.data |-> Parsed(js.data[i][n])])
        no(c) == CHOOSE n \in DOMAIN js.columns : js.columns[n] = c
    IN  [cols |-> js.columns,
         dtypes |-> [c \in Range(js.columns) |-> ColumnDtype(col(no(c)))],
         rows |-> [i \in DOMAIN js.data |->
                     [c \in Range(js.columns) |-> col(no(c))[i]]]]

\* ---- the batches handed over ----
\* text values of a transformed batch: letters, digits, or nothing
HandoffChars == {"a", "0", "7"}
HandoffVals == { Str(t) : t \in SeqsUpTo(HandoffChars, MaxLen) }
\* row i carries vals[i] as flight_number and vals[Len - i + 1] as
\* arrival_terminal, the empty string as flight_status, "a" elsewhere
HandoffBatch(vals) ==
    [cols |-> CanonicalCols,
     dtypes |-> [c \in Range(CanonicalCols) |-> "object"],
     rows |-> [i \in DOMAIN vals |->
                 [c \in Range(CanonicalCols) |->
                    CASE c = "flight_number" -> vals[i]
                      [] c = "arrival_terminal" -> vals[Len(vals) - i + 1]
                      [] c = "flight_status" -> EmptyStr
                      [] OTHER -> Str(<< "a" >>)]]]
HandoffBatches == { HandoffBatch(vs) : vs \in SeqsUpTo(HandoffVals, MaxRows) }

HandoffInit ==
    /\ hIn \in HandoffBatches
    /\ hJson = NoJson
    /\ hOut = NoFrame
    /\ hStage = 0

HandoffIdle ==
    /\ hIn = NoFrame
    /\ hJson = NoJson
    /\ hOut = NoFrame
    /\ hStage = 0

\* ti.xcom_push(key=..., value=df.to_json(orient='split'))
XcomPushJson ==
    /\ hStage = 0
    /\ hJson' = to_json(hIn)
    /\ hStage' = 1
    /\ UNCHANGED << hIn, hOut >>
    /\ UNCHANGED notHandoff

\* df = pd.read_json(ti.xcom_pull(...), orient='split')
XcomPullJson ==
    /\ hStage = 1
    /\ hOut' = read_json(hJson)
    /\ hStage' = 2
    /\ UNCHANGED << hIn, hJson >>
    /\ UNCHANGED notHandoff

HandoffNext ==
    \/ XcomPushJson
    \/ XcomPullJson

\* ------------------------------------------------------------------------
\* Properties of the XCom hand-off
\* ------------------------------------------------------------------------
\* C14: for a batch whose field values are all strings (digit-only strings
\* and strings with leading zeros among them) or the empty string, reading
\* back its split-oriented JSON gives a batch with the same columns, the
\* same rows and, in every field, the same string value.
C14_RoundTripLossless ==
    hStage = 2 =>
        /\ hOut.cols = hIn.cols
        /\ Len(hOut.rows) = Len(hIn.rows)
        /\ \A i \in DOMAIN hIn.rows : \A c \in Range(hIn.cols) :
               hOut.rows[i][c] = hIn.rows[i][c]

\* ========================================================================
\* health_check_dag.py
\* ========================================================================
\* DAG("flight_data_etl_pipeline", ...) of etl.py and DAG("health_check_dag", ...)
etl_dag_id == "flight_data_etl_pipeline"
health_dag_id == "health_check_dag"
\* TriggerDagRunOperator(trigger_dag_id=...)
trigger_dag_id == "pandas_etl_pipeline"

HcChecks ==
    {"check_postgres_connection", "check_airflow_connections", "check_filesystem_access",
     "system_check"}
HcTasks == HcChecks \cup {"checks_complete", "trigger_etl_pipeline"}
\* [the four checks] >> checks_complete >> trigger_etl_pipeline
HcUpstreamOf(t) ==
    CASE t = "checks_complete" -> HcChecks
      [] t = "trigger_etl_pipeline" -> {"checks_complete"}
      [] OTHER -> {}
\* default_args["retries"] of health_check_dag
hc_retries == 2

\* the trigger rule of the operators (the default, all_success)
HcTriggerRuleMet(t) == \A u \in HcUpstreamOf(t) : hcState[u] = "success"
HcUpstreamFailed(t) == \E u \in HcUpstreamOf(t) : hcState[u] \in {"failed", "upstream_failed"}

\* the DAG files of this repository; a deployment may hold other DAGs, one
\* named pandas_etl_pipeline among them
HealthInit ==
    /\ dagBag \in { {etl_dag_id, health_dag_id}, {etl_dag_id, health_dag_id, "pandas_etl_pipeline"} }
    /\ hcState = [t \in HcTasks |-> "none"]
    /\ hcTries = [t \in HcTasks |-> 0]
    /\ hcRequested = "none"

HealthIdle ==
    /\ dagBag = {etl_dag_id, health_dag_id}
    /\ hcState = [t \in HcTasks |-> "none"]
    /\ hcTries = [t \in HcTasks |-> 0]
    /\ hcRequested = "none"

\* the scheduler starts a try of task t
HcStart(t) ==
    /\ hcState[t] \in {"none", "up_for_retry"}
    /\ HcTriggerRuleMet(t)
    /\ hcState' = [hcState EXCEPT ![t] = "running"]
    /\ hcTries' = [hcTries EXCEPT ![t] = @ + 1]
    /\ UNCHANGED << dagBag, hcRequested >>
    /\ UNCHANGED notHealth

\* a task whose upstream task failed is not run
HcMarkUpstreamFailed(t) ==
    /\ hcState[t] = "none"
    /\ HcUpstreamFailed(t)
    /\ hcState' = [hcState EXCEPT ![t] = "upstream_failed"]
    /\ UNCHANGED << dagBag, hcTries, hcRequested >>
    /\ UNCHANGED notHealth

\* a check or checks_complete returns
HcSucceed(t) ==
    /\ t # "trigger_etl_pipeline"
    /\ hcState[t] = "running"
    /\ hcState' = [hcState EXCEPT ![t] = "success"]
    /\ UNCHANGED << dagBag, hcTries, hcRequested >>
    /\ UNCHANGED notHealth

\* a check or checks_complete raises, exits non-zero or is killed
HcFail(t) ==
    /\ t # "trigger_etl_pipeline"
    /\ hcState[t] = "running"
    /\ hcState' = [hcState EXCEPT ![t] =
                       IF hcTries[t] <= hc_retries THEN "up_for_retry" ELSE "failed"]
    /\ UNCHANGED << dagBag, hcTries, hcRequested >>
    /\ UNCHANGED notHealth

\* TriggerDagRunOperator.execute: a run of trigger_dag_id is asked for; a DAG
\* id Airflow does not know makes the task fail (DagNotFound)
TriggerDagRun ==
    /\ hcState["trigger_etl_pipeline"] = "running"
    /\ hcRequested' = trigger_dag_id
    /\ hcState' = [hcState EXCEPT !["trigger_etl_pipeline"] =
                       IF trigger_dag_id \in dagBag THEN "success"
                       ELSE IF hcTries["trigger_etl_pipeline"] <= hc_retries
                       THEN "up_for_retry" ELSE "failed"]
    /\ UNCHANGED << dagBag, hcTries >>
    /\ UNCHANGED notHealth

HealthNext ==
    \/ \E t \in HcTasks : HcStart(t)
    \/ \E t \in HcTasks : HcMarkUpstreamFailed(t)
    \/ \E t \in HcTasks : HcSucceed(t)
    \/ \E t \in HcTasks : HcFail(t)
    \/ TriggerDagRun

\* ------------------------------------------------------------------------
\* Properties of health_check_dag
\* ------------------------------------------------------------------------
\* C16: trigger_etl_pipeline is started only when the four checks and then
\* checks_complete have succeeded, and the DAG it asks Airflow to run is the
\* DAG of etl.py, flight_data_etl_pipeline.
C16_TriggersEtlAfterChecks ==
    /\ hcTries["trigger_etl_pipeline"] > 0 =>
           \A t \in HcChecks \cup {"checks_complete"} : hcState[t] = "success"
    /\ hcTries["checks_complete"] > 0 => \A t \in HcChecks : hcState[t] = "success"
    /\ hcRequested # "none" => hcRequested = "flight_data_etl_pipeline"
    /\ hcState["trigger_etl_pipeline"] = "success" => hcRequested = "flight_data_etl_pipeline"

\* ========================================================================
\* Specifications
\* ========================================================================
LoadIdle ==
    /\ table = NoTable
    /\ lpc = [r \in Runs |-> "idle"]
    /\ ldf = [r \in Runs |-> NoBatch]
    /\ attempt = [r \in Runs |-> 0]
    /\ ltrace = [r \in Runs |-> << >>]
    /\ pauses = [r \in Runs |-> << >>]
    /\ lresult = [r \in Runs |-> "none"]
    /\ lraised = [r \in Runs |-> NoExc]
    /\ lasterr = [r \in Runs |-> NoExc]
    /\ latest = "none"
    /\ lcreates = [r \in Runs |-> 0]

\* load_data calls that follow one another
InitLoad == TransformIdle /\ ExtractIdle /\ DqIdle /\ DagInit /\ HandoffIdle /\ HealthIdle /\ LoadInit
SpecLoad == InitLoad /\ [][LoadNext]_vars

\* load_data calls of two runs that overlap
SpecConcurrentLoad == InitLoad /\ [][ConcurrentLoadNext]_vars

\* transform_data on a batch, then on its own output
InitTransform == LoadIdle /\ ExtractIdle /\ DqIdle /\ DagInit /\ HandoffIdle /\ HealthIdle /\ TransformInit
SpecTransform == InitTransform /\ [][TransformNext]_vars

\* extract_data calls against an API that answers in any way
InitExtract == LoadIdle /\ TransformIdle /\ DqIdle /\ DagInit /\ HandoffIdle /\ HealthIdle /\ ExtractInit
SpecExtract == InitExtract /\ [][ExtractNext]_vars

\* data_quality_check on a batch with a validation engine in any condition
InitDq == LoadIdle /\ TransformIdle /\ ExtractIdle /\ DagInit /\ HandoffIdle /\ HealthIdle /\ DqInit
SpecDq == InitDq /\ [][DqNext]_vars

\* runs of the DAG flight_data_etl_pipeline under the Airflow scheduler
InitDag == LoadIdle /\ TransformIdle /\ ExtractIdle /\ DqIdle /\ HandoffIdle /\ HealthIdle /\ DagInit
SpecDag == InitDag /\ [][DagNext]_vars

\* a run of health_check_dag
InitHealth ==
    LoadIdle /\ TransformIdle /\ ExtractIdle /\ DqIdle /\ DagInit /\ HandoffIdle /\ HealthInit
SpecHealth == InitHealth /\ [][HealthNext]_vars

\* a batch pushed to XCom by one task and pulled by the next
InitHandoff == LoadIdle /\ TransformIdle /\ ExtractIdle /\ DqIdle /\ DagInit /\ HealthIdle /\ HandoffInit
SpecHandoff == InitHandoff /\ [][HandoffNext]_vars

====
